---- MODULE Spec2Model ----
(***************************************************************************)
(* Model of the stock-briefing skill's signal evaluation engine:           *)
(*   daily_stock_checkin.py  compute_price_change_pct, fetch_snapshot,     *)
(*                           evaluate_guardrails, build_due_tasks, main    *)
(*   insider_activity.py     detect_cluster_selling                        *)
(*   market_data.py          fetch_all_info, refresh_earnings              *)
(*   sec_filings.py          main, fetch_filings                           *)
(*                                                                         *)
(* Conventions                                                             *)
(*   - A Python Optional is a sequence of length <= 1: None is <<>>, a     *)
(*     value v is <<v>>.                                                   *)
(*   - A raw YAML / JSON value is a record [t, n]: t is "absent" (the key  *)
(*     is missing), "null", "str" (a non-numeric string such as "abc"),    *)
(*     "nan" or "num" with the number n.                                   *)
(*   - A datetime.date is its proleptic Gregorian ordinal (date.toordinal),*)
(*     so date subtraction (.days) is integer subtraction.                 *)
(*   - A date text "YYYY-MM-DD" is the sequence of its "-"-separated       *)
(*     numeric fields, <<y, m, d>>; text that is no date has another shape.*)
(*   - Prices are whole dollars; percentages are fixed point, in           *)
(*     hundredths of a percent (7.0% is 700), exact where Python uses      *)
(*     binary floating point.                                              *)
(***************************************************************************)
EXTENDS Integers, Sequences, FiniteSets, TLC

VARIABLES
    pc,            \* position of main(): "fetch", "evaluated", "done", "crashed"
    run_date,      \* main(): run_date
    guardrails,    \* main(): config.get("guardrails", {})
    watchlist,     \* main(): resolve_watchlist(config)
    snapshots,     \* main(): snapshots fetched so far, one per watchlist item
    verdict,       \* what evaluate_guardrails returned (or that it raised)
    cur_in,        \* compute_price_change_pct: argument current
    prev_in,       \* compute_price_change_pct: argument previous_close
    pct_out,       \* compute_price_change_pct: <<result>> once called
    transactions,  \* detect_cluster_selling: argument transactions
    cluster_out,   \* detect_cluster_selling: <<result>> once called
    cadence,       \* main(): config.get("cadence", {})
    due_tasks,     \* what build_due_tasks returned (or that it raised)
    script,        \* the script whose fetch loop runs: market_data, sec_filings
    fetch_pc,      \* position of the fetch loop: "idle", "loop", "done"
    tickers,       \* the tickers the loop is given
    idx,           \* iterations of the loop so far
    clock,         \* time.monotonic(), in hundredths of a second
    issued,        \* the fetches issued so far, each with its start time
    errors,        \* the errors list
    calls,         \* repeated calls: the functions called so far, in order
    refresh_in,    \* refresh_earnings: arguments, config file, today
    refresh_out    \* refresh_earnings: <<what the call left>> once called

vars == <<pc, run_date, guardrails, watchlist, snapshots, verdict,
          cur_in, prev_in, pct_out, transactions, cluster_out,
          cadence, due_tasks,
          script, fetch_pc, tickers, idx, clock, issued, errors, calls,
          refresh_in, refresh_out>>

guardVars == <<pc, run_date, guardrails, watchlist, snapshots, verdict>>
priceVars == <<cur_in, prev_in, pct_out>>
clusterVars == <<transactions, cluster_out>>
taskVars == <<cadence, due_tasks>>
loopVars == <<script, fetch_pc, tickers, idx, clock, issued, errors>>
refreshVars == <<refresh_in, refresh_out>>

\* The variables a step of one program leaves to the other programs.
outsideMain == <<priceVars, clusterVars, loopVars, calls, refreshVars>>
outsidePrice == <<guardVars, taskVars, clusterVars, loopVars, calls, refreshVars>>
outsideCluster == <<guardVars, taskVars, priceVars, loopVars, calls, refreshVars>>
outsideFetch == <<guardVars, taskVars, priceVars, clusterVars, calls, refreshVars>>

-----------------------------------------------------------------------------
(* Python values *)

None == <<>>
Some(v) == <<v>>
IsNone(o) == o = <<>>
Get(o) == o[1]

Abs(x) == IF x < 0 THEN -x ELSE x

RAbsent == [t |-> "absent", n |-> 0]
RNull == [t |-> "null", n |-> 0]
RStr == [t |-> "str", n |-> 0]
RNaN == [t |-> "nan", n |-> 0]
RNum(k) == [t |-> "num", n |-> k]

\* dict.get(key, default): the default only when the key is missing.
DictGet(raw, default) == IF raw.t = "absent" THEN RNum(default) ELSE raw

\* dict.get(key): None when the key is missing.
DictGetNone(raw) == IF raw.t = "absent" THEN RNull ELSE raw

\* int(x) / float(x): TypeError on None, ValueError on a non-numeric string.
PyNumber(raw) ==
    CASE raw.t = "null" -> [exc |-> "TypeError", v |-> 0]
      [] raw.t = "str" -> [exc |-> "ValueError", v |-> 0]
      [] OTHER -> [exc |-> "", v |-> raw.n]

safe_float(raw) ==
    IF raw.t = "null" THEN None
    ELSE IF raw.t = "str" THEN None
    ELSE IF raw.t = "nan" THEN None
    ELSE Some(raw.n)

safe_int(raw) ==
    IF raw.t = "null" THEN None
    ELSE IF raw.t = "str" THEN None
    ELSE IF raw.t = "nan" THEN None
    ELSE Some(raw.n)

-----------------------------------------------------------------------------
(* Calendar: datetime.date as an ordinal *)

IsLeap(y) == (y % 4 = 0) /\ ((y % 100 # 0) \/ (y % 400 = 0))

DaysInMonth(y, m) ==
    IF m = 2 THEN (IF IsLeap(y) THEN 29 ELSE 28)
    ELSE IF m \in {4, 6, 9, 11} THEN 30 ELSE 31

DaysBeforeYear(y) ==
    ((y - 1) * 365) + ((y - 1) \div 4) - ((y - 1) \div 100) + ((y - 1) \div 400)

\* Days of the year before the first of month m.
DaysBeforeMonth(y, m) ==
    <<0, 31, 59, 90, 120, 151, 181, 212, 243, 273, 304, 334>>[m]
        + (IF m > 2 /\ IsLeap(y) THEN 1 ELSE 0)

ToOrdinal(y, m, d) == DaysBeforeYear(y) + DaysBeforeMonth(y, m) + d

\* datetime.strptime(text, "%Y-%m-%d").date(): <<ordinal>>, or None for the
\* ValueError of text that is no calendar date.
StrpDate(text) ==
    IF Len(text) # 3 THEN None
    ELSE IF ~(text[1] \in 1..9999) THEN None
    ELSE IF ~(text[2] \in 1..12) THEN None
    ELSE IF ~(text[3] \in 1..DaysInMonth(text[1], text[2])) THEN None
    ELSE Some(ToOrdinal(text[1], text[2], text[3]))

EpochOrdinal == ToOrdinal(1970, 1, 1)
SecondsPerDay == 24 * 60 * 60

\* datetime.fromtimestamp(int(raw), tz=timezone.utc).date()
UtcDate(seconds) == EpochOrdinal + (seconds \div SecondsPerDay)


-----------------------------------------------------------------------------
(* daily_stock_checkin.py: price change *)

\* round(num / den, 0) for den > 0, ties to the even neighbour (Python's
\* round on a value that binary floating point represents exactly).
RoundDiv(num, den) ==
    LET q == num \div den
        r == num - (q * den)
    IN  IF 2 * r < den THEN q
        ELSE IF 2 * r > den THEN q + 1
        ELSE IF q % 2 = 0 THEN q ELSE q + 1

\* The guard with its first half forgotten: only a previous close above 100
\* times the current price is rejected.
RatioGuardOneSided(current, previous_close) ==
    previous_close > current * 100

\* The sanity guard of line 138: previous_close < current * 0.01 or
\* previous_close > current * 100.
RatioGuard(current, previous_close) ==
    \/ 100 * previous_close < current
    \/ previous_close > current * 100

\* Line 140, in hundredths of a percent.
PctOf(current, previous_close) ==
    RoundDiv((current - previous_close) * 100 * 100, previous_close)

compute_price_change_pct(current, previous_close) ==
    IF IsNone(current) \/ IsNone(previous_close) THEN None
    ELSE IF Get(previous_close) = 0 THEN None
    ELSE IF Get(current) = Get(previous_close) THEN None
    ELSE IF RatioGuard(Get(current), Get(previous_close)) THEN None
    ELSE Some(PctOf(Get(current), Get(previous_close)))

-----------------------------------------------------------------------------
(* daily_stock_checkin.py: snapshots *)

CompanyOf(ticker) ==
    CASE ticker = "NVDA" -> "NVIDIA"
      [] ticker = "MRVL" -> "Marvell"
      [] OTHER -> "Oklo"

WatchlistItem(ticker, earnings_date) ==
    [ticker |-> ticker, company |-> CompanyOf(ticker),
     earnings_date |-> earnings_date]

\* On the exception texts of the model: an empty text, a curl failure and a
\* short text that is kept as it is. The result is never empty.
summarize_error_message(text) ==
    IF text = "" THEN "Unknown fetch error"
    ELSE IF text = "Failed to perform, curl: (28) timeout"
    THEN "Network fetch failed"
    ELSE text

extract_last_trade_date(info) ==
    LET raw == DictGetNone(info.regularMarketTime)
    IN  IF raw.t = "null" THEN None
        ELSE IF raw.t = "num" THEN Some(UtcDate(raw.n))
        ELSE None

\* An error snapshot that carries a price of 0 instead of none.
ErrorSnapshotZeroPrice(item, message) ==
    [ticker |-> item.ticker, company |-> item.company,
     price |-> Some(0), price_change_pct |-> None, market_cap |-> None,
     pe_trailing |-> None, pe_forward |-> None, ev_ebitda |-> None,
     ps_ratio |-> None, last_trade_date |-> None, error |-> Some(message)]

ErrorSnapshot(item, message) ==
    [ticker |-> item.ticker, company |-> item.company,
     price |-> None, price_change_pct |-> None, market_cap |-> None,
     pe_trailing |-> None, pe_forward |-> None, ev_ebitda |-> None,
     ps_ratio |-> None, last_trade_date |-> None, error |-> Some(message)]

\* yf.Ticker(ticker).info either raises (info.outcome = "raise", with the
\* exception's text), is empty ("empty") or is a dict ("dict").
fetch_snapshot(item, info) ==
    IF info.outcome = "raise"
    THEN ErrorSnapshot(item, summarize_error_message(info.message))
    ELSE IF info.outcome = "empty"
    THEN ErrorSnapshot(item, "No data returned from yfinance")
    ELSE
        LET first == safe_float(DictGetNone(info.currentPrice))
            price == IF IsNone(first)
                     THEN safe_float(DictGetNone(info.regularMarketPrice))
                     ELSE first
            previous_close == safe_float(DictGetNone(info.previousClose))
        IN  [ticker |-> item.ticker, company |-> item.company,
             price |-> IF ~IsNone(price) THEN price ELSE previous_close,
             price_change_pct |-> compute_price_change_pct(price, previous_close),
             market_cap |-> safe_int(DictGetNone(info.marketCap)),
             pe_trailing |-> safe_float(DictGetNone(info.trailingPE)),
             pe_forward |-> safe_float(DictGetNone(info.forwardPE)),
             ev_ebitda |-> safe_float(DictGetNone(info.enterpriseToEbitda)),
             ps_ratio |-> safe_float(DictGetNone(info.priceToSalesTrailing12Months)),
             last_trade_date |-> extract_last_trade_date(info),
             error |-> None]

-----------------------------------------------------------------------------
(* daily_stock_checkin.py: evaluate_guardrails *)

\* Python's string order on the tickers of the model.
TickerRank(ticker) ==
    CASE ticker = "MRVL" -> 1
      [] ticker = "NVDA" -> 2
      [] OTHER -> 3

RECURSIVE InsertSorted(_, _)
InsertSorted(t, s) ==
    IF s = <<>> THEN <<t>>
    ELSE IF TickerRank(t) < TickerRank(Head(s)) THEN <<t>> \o s
    ELSE <<Head(s)>> \o InsertSorted(t, Tail(s))

RECURSIVE SortedTickers(_)
SortedTickers(s) ==
    IF s = <<>> THEN <<>> ELSE InsertSorted(Head(s), SortedTickers(Tail(s)))

\* Truthiness of an Optional[str].
Truthy(o) == ~IsNone(o) /\ Get(o) # ""

IsMissing(s) == Truthy(s.error) \/ IsNone(s.price)

\* The comparison of line 330 made inclusive.
MissingTripsInclusive(count, max_missing_tickers) == count >= max_missing_tickers

MissingTrips(count, max_missing_tickers) == count > max_missing_tickers

MissingRule(snaps, max_missing_tickers) ==
    LET hit == SelectSeq(snaps, IsMissing)
        missing == [i \in 1..Len(hit) |-> hit[i].ticker]
    IN  IF MissingTrips(Len(missing), max_missing_tickers)
        THEN <<[rule |-> "missing", count |-> Len(missing),
                items |-> SortedTickers(missing)]>>
        ELSE <<>>

\* The comparison of line 340 made inclusive.
IsStaleInclusive(snap, rd, stale_data_max_days) ==
    IF IsNone(snap.last_trade_date) \/ IsNone(snap.price) THEN FALSE
    ELSE (rd - Get(snap.last_trade_date)) >= stale_data_max_days

IsStale(snap, rd, stale_data_max_days) ==
    IF IsNone(snap.last_trade_date) \/ IsNone(snap.price) THEN FALSE
    ELSE (rd - Get(snap.last_trade_date)) > stale_data_max_days

StaleRule(snaps, rd, stale_data_max_days) ==
    LET hit == SelectSeq(snaps, LAMBDA s: IsStale(s, rd, stale_data_max_days))
        stale == [i \in 1..Len(hit) |->
                    [ticker |-> hit[i].ticker,
                     date |-> Get(hit[i].last_trade_date)]]
    IN  IF stale # <<>>
        THEN <<[rule |-> "stale", count |-> Len(stale), items |-> stale]>>
        ELSE <<>>

\* Line 352 without abs(): only rises count.
IsLargeMoveSigned(snap, price_move_threshold) ==
    IF IsNone(snap.price_change_pct) THEN FALSE
    ELSE Get(snap.price_change_pct) >= price_move_threshold

IsLargeMove(snap, price_move_threshold) ==
    IF IsNone(snap.price_change_pct) THEN FALSE
    ELSE Abs(Get(snap.price_change_pct)) >= price_move_threshold

LargeMoveRule(snaps, price_move_threshold) ==
    LET hit == SelectSeq(snaps, LAMBDA s: IsLargeMove(s, price_move_threshold))
        large_moves == [i \in 1..Len(hit) |->
                          [ticker |-> hit[i].ticker,
                           change |-> Get(hit[i].price_change_pct)]]
    IN  IF large_moves # <<>>
        THEN <<[rule |-> "move", count |-> Len(large_moves),
                items |-> large_moves]>>
        ELSE <<>>

Relation(delta) ==
    IF delta < 0 THEN ToString(Abs(delta)) \o " day(s) ago"
    ELSE IF delta > 0 THEN "in " \o ToString(delta) \o " day(s)"
    ELSE "today"

\* Line 363 without abs(): every past earnings date counts.
IsDueSigned(item, rd, earnings_window_days) ==
    IF IsNone(item.earnings_date) THEN FALSE
    ELSE (Get(item.earnings_date) - rd) <= earnings_window_days

IsDue(item, rd, earnings_window_days) ==
    IF IsNone(item.earnings_date) THEN FALSE
    ELSE Abs(Get(item.earnings_date) - rd) <= earnings_window_days

EarningsDue(wl, rd, earnings_window_days) ==
    LET hit == SelectSeq(wl, LAMBDA it: IsDue(it, rd, earnings_window_days))
    IN  [i \in 1..Len(hit) |->
           [ticker |-> hit[i].ticker, company |-> hit[i].company,
            date |-> Get(hit[i].earnings_date),
            relation |-> Relation(Get(hit[i].earnings_date) - rd)]]

EarningsRule(earnings_due) ==
    IF earnings_due # <<>>
    THEN <<[rule |-> "earnings", count |-> Len(earnings_due),
            items |-> earnings_due]>>
    ELSE <<>>

\* A status that needs more than one trigger.
StatusOfSeveral(triggered) ==
    IF Len(triggered) > 1 THEN "MANUAL REVIEW REQUIRED" ELSE "AUTO CLEAR"

StatusOf(triggered) ==
    IF triggered # <<>> THEN "MANUAL REVIEW REQUIRED" ELSE "AUTO CLEAR"

Raised(exc) ==
    [outcome |-> "raised", exc |-> exc, status |-> "",
     triggered |-> <<>>, earnings_due |-> <<>>]

\* Lines 324-327: the four conversions, in order; the first that fails raises.
Thresholds(g) ==
    LET a == PyNumber(DictGet(g.max_missing_tickers, 0))
        b == PyNumber(DictGet(g.stale_data_max_days, 1))
        c == PyNumber(DictGet(g.price_move_pct_threshold, 700))
        d == PyNumber(DictGet(g.earnings_window_days, 1))
    IN  [exc |-> IF a.exc # "" THEN a.exc
                 ELSE IF b.exc # "" THEN b.exc
                 ELSE IF c.exc # "" THEN c.exc
                 ELSE d.exc,
         max_missing_tickers |-> a.v, stale_data_max_days |-> b.v,
         price_move_threshold |-> c.v, earnings_window_days |-> d.v]

\* The rules short-circuited: missing data hides the other triggers.
TriggeredFirstOnly(snaps, wl, th, rd) ==
    IF MissingRule(snaps, th.max_missing_tickers) # <<>>
    THEN MissingRule(snaps, th.max_missing_tickers)
    ELSE StaleRule(snaps, rd, th.stale_data_max_days)
         \o LargeMoveRule(snaps, th.price_move_threshold)
         \o EarningsRule(EarningsDue(wl, rd, th.earnings_window_days))

Triggered(snaps, wl, th, rd) ==
    MissingRule(snaps, th.max_missing_tickers)
    \o StaleRule(snaps, rd, th.stale_data_max_days)
    \o LargeMoveRule(snaps, th.price_move_threshold)
    \o EarningsRule(EarningsDue(wl, rd, th.earnings_window_days))

evaluate_guardrails(snaps, wl, g, rd) ==
    IF g.section = "null" THEN Raised("AttributeError")
    ELSE
        LET th == Thresholds(g)
        IN  IF th.exc # "" THEN Raised(th.exc)
            ELSE
                LET triggered == Triggered(snaps, wl, th, rd)
                IN  [outcome |-> "returned", exc |-> "",
                     status |-> StatusOf(triggered),
                     triggered |-> triggered,
                     earnings_due |-> EarningsDue(wl, rd, th.earnings_window_days)]

-----------------------------------------------------------------------------
(* daily_stock_checkin.py: cadence tasks *)

\* A text is the sequence of its characters.
UpperCase ==
    <<"A", "B", "C", "D", "E", "F", "G", "H", "I", "J", "K", "L", "M",
      "N", "O", "P", "Q", "R", "S", "T", "U", "V", "W", "X", "Y", "Z">>
LowerCase ==
    <<"a", "b", "c", "d", "e", "f", "g", "h", "i", "j", "k", "l", "m",
      "n", "o", "p", "q", "r", "s", "t", "u", "v", "w", "x", "y", "z">>

IsSpace(c) == c \in {" ", "\t", "\n"}

\* str.strip()
RECURSIVE LStrip(_)
LStrip(text) ==
    IF text = <<>> THEN <<>>
    ELSE IF IsSpace(Head(text)) THEN LStrip(Tail(text))
    ELSE text

RECURSIVE RStrip(_)
RStrip(text) ==
    IF text = <<>> THEN <<>>
    ELSE IF IsSpace(text[Len(text)]) THEN RStrip(SubSeq(text, 1, Len(text) - 1))
    ELSE text

Strip(text) == RStrip(LStrip(text))

\* A lookup that keeps the case of the configured name.
LowerKeepsCase(text) == text

\* str.lower()
Lower(text) ==
    [i \in 1..Len(text) |->
        IF \E k \in 1..26 : UpperCase[k] = text[i]
        THEN LowerCase[CHOOSE k \in 1..26 : UpperCase[k] = text[i]]
        ELSE text[i]]

\* A value of the cadence section under weekly_review_day: the key is
\* missing, null, or a text.
WAbsent == [t |-> "absent", v |-> <<>>]
WNull == [t |-> "null", v |-> <<>>]
WText(v) == [t |-> "str", v |-> v]

\* str(cadence_cfg.get("weekly_review_day", "Friday"))
WeeklyDayStr(raw) ==
    IF raw.t = "absent" THEN <<"F", "r", "i", "d", "a", "y">>
    ELSE IF raw.t = "null" THEN <<"N", "o", "n", "e">>
    ELSE raw.v

DAY_NAME_TO_WEEKDAY ==
    << <<"m", "o", "n", "d", "a", "y">>,
       <<"t", "u", "e", "s", "d", "a", "y">>,
       <<"w", "e", "d", "n", "e", "s", "d", "a", "y">>,
       <<"t", "h", "u", "r", "s", "d", "a", "y">>,
       <<"f", "r", "i", "d", "a", "y">>,
       <<"s", "a", "t", "u", "r", "d", "a", "y">>,
       <<"s", "u", "n", "d", "a", "y">> >>

\* DAY_NAME_TO_WEEKDAY.get(name, default): Monday is 0.
DayNameGet(name, default) ==
    IF \E k \in 1..7 : DAY_NAME_TO_WEEKDAY[k] = name
    THEN (CHOOSE k \in 1..7 : DAY_NAME_TO_WEEKDAY[k] = name) - 1
    ELSE default

\* date.weekday(): Monday is 0, Sunday is 6.
Weekday(ordinal) == (ordinal + 6) % 7

\* date.year, date.month, date.day of an ordinal.
RECURSIVE YearFrom(_, _)
YearFrom(ordinal, y) ==
    IF DaysBeforeYear(y + 1) < ordinal THEN YearFrom(ordinal, y + 1) ELSE y

YearOf(ordinal) == YearFrom(ordinal, (ordinal \div 366) + 1)

RECURSIVE MonthFrom(_, _, _)
MonthFrom(y, day_of_year, m) ==
    IF m < 12 /\ DaysBeforeMonth(y, m + 1) < day_of_year
    THEN MonthFrom(y, day_of_year, m + 1)
    ELSE m

MonthOf(ordinal) ==
    LET y == YearOf(ordinal)
    IN  MonthFrom(y, ordinal - DaysBeforeYear(y), 1)

DayOf(ordinal) ==
    LET y == YearOf(ordinal)
    IN  ordinal - DaysBeforeYear(y) - DaysBeforeMonth(y, MonthOf(ordinal))

\* target_date.replace(day=1)
ReplaceDayOne(ordinal) == ordinal - DayOf(ordinal) + 1

\* Saturday counted as a business day.
IsBusinessDaySixDayWeek(cursor) == Weekday(cursor) < 6

\* Line 261: cursor.weekday() < 5.
IsBusinessDay(cursor) == Weekday(cursor) < 5

\* The loop of lines 260-263 from cursor, count being the count so far.
RECURSIVE CountBusinessDays(_, _, _)
CountBusinessDays(cursor, target_date, count) ==
    IF cursor <= target_date
    THEN CountBusinessDays(cursor + 1, target_date,
                           IF IsBusinessDay(cursor) THEN count + 1 ELSE count)
    ELSE count

nth_business_day_of_month(target_date) ==
    CountBusinessDays(ReplaceDayOne(target_date), target_date, 0)

\* A value of the cadence section under bi_monthly_days: the key is missing,
\* null, or a list of day numbers.
BAbsent == [t |-> "absent", v |-> <<>>]
BNull == [t |-> "null", v |-> <<>>]
BList(v) == [t |-> "list", v |-> v]

\* The default list with the 15th left out.
DefaultBiMonthlyDaysFirstOnly == <<1>>

\* Line 285: the default of bi_monthly_days.
DefaultBiMonthlyDays == <<1, 15>>

\* cadence_cfg.get("bi_monthly_days", [1, 15])
BiMonthlyDaysGet(raw) ==
    IF raw.t = "absent" THEN BList(DefaultBiMonthlyDays) ELSE raw

\* x in days, for a list.
InList(x, days) == \E k \in 1..Len(days) : days[k] = x

DailyTasks ==
    <<"Review red flags checklist for all six names.",
      "Scan 8-K filings and material company announcements.",
      "Check sell-side estimate revisions and target changes.",
      "Check hyperscaler AI capex commentary deltas (MSFT, GOOG, META, AMZN).">>

WeeklyTasks ==
    <<"Review Form 4 insider buy/sell activity.",
      "Review sector flow and relative performance signals (SMH, GRID/ICLN).",
      "Review valuation drift versus your baseline thesis assumptions.">>

BiMonthlyTasks ==
    <<"Check short-interest updates and changes in crowding risk.",
      "Review options implied volatility into the next earnings windows.">>

MonthlyTasks ==
    <<"Review macro layer: fed path, 10Y yield, and cost-of-capital pressure.",
      "Review policy/regulation changes: export controls, tariff updates, DOE/NRC updates.">>

EarningsWindowInstruction ==
    "Run earnings workflow: pre-read release, call notes, guidance delta, and post-call thesis check."

\* One instruction for each due ticker.
EarningsWindowTasksPerTicker(earnings_due) ==
    [i \in 1..Len(earnings_due) |-> EarningsWindowInstruction]

\* Lines 300-304.
EarningsWindowTasks(earnings_due) ==
    IF earnings_due # <<>> THEN <<EarningsWindowInstruction>> ELSE <<>>

TasksRaised(exc) ==
    [outcome |-> "raised", exc |-> exc, daily |-> <<>>, weekly |-> <<>>,
     bi_monthly |-> <<>>, monthly |-> <<>>, earnings_window |-> <<>>]

\* cadence_cfg is the dict of the cadence section (every key possibly
\* missing) or null.
build_due_tasks(rd, cadence_cfg, earnings_due) ==
    IF cadence_cfg.section = "null" THEN TasksRaised("AttributeError")
    ELSE
        LET weekly_day == Lower(Strip(WeeklyDayStr(cadence_cfg.weekly_review_day)))
            bi_monthly_days == BiMonthlyDaysGet(cadence_cfg.bi_monthly_days)
            monthly_business_day ==
                PyNumber(DictGet(cadence_cfg.monthly_review_business_day, 1))
        IN  IF bi_monthly_days.t = "null" THEN TasksRaised("TypeError")
            ELSE IF monthly_business_day.exc # ""
            THEN TasksRaised(monthly_business_day.exc)
            ELSE
                [outcome |-> "returned", exc |-> "",
                 daily |-> DailyTasks,
                 weekly |-> IF Weekday(rd) = DayNameGet(weekly_day, 4)
                            THEN WeeklyTasks ELSE <<>>,
                 bi_monthly |-> IF InList(DayOf(rd), bi_monthly_days.v)
                                THEN BiMonthlyTasks ELSE <<>>,
                 monthly |-> IF nth_business_day_of_month(rd)
                                    = monthly_business_day.v
                             THEN MonthlyTasks ELSE <<>>,
                 earnings_window |-> EarningsWindowTasks(earnings_due)]

-----------------------------------------------------------------------------
(* The run of daily_stock_checkin.main: inputs *)

MaxWatch == 2

WatchTickers == <<"NVDA", "MRVL", "OKLO", "CRWV">>

BaseDay == ToOrdinal(2026, 2, 26)

\* --date: the earnings date of the model is 3 days after, on, or 2 days
\* before the run date.
RunDates == {BaseDay, BaseDay + 3, BaseDay + 5}

EarningsDates == {None, Some(BaseDay + 3)}

\* regularMarketTime, epoch seconds: 16:00 UTC of the day after BaseDay, so
\* the last trade is 1 day after, 2 days before or 4 days before the run date.
MarketTimes ==
    {RAbsent, RNum(((BaseDay + 1 - EpochOrdinal) * SecondsPerDay) + 57600)}

\* What yf.Ticker(ticker).info gives.
InfoDicts ==
    {[outcome |-> "dict", message |-> "",
      currentPrice |-> c, regularMarketPrice |-> r, previousClose |-> p,
      regularMarketTime |-> t,
      marketCap |-> IF c.t = "num" THEN RNum(5000) ELSE RAbsent,
      trailingPE |-> IF c.t = "num" THEN RNum(40) ELSE RNaN,
      forwardPE |-> IF c.t = "num" THEN RNum(30) ELSE RNull,
      enterpriseToEbitda |-> IF c.t = "num" THEN RNum(25) ELSE RStr,
      priceToSalesTrailing12Months |-> IF c.t = "num" THEN RNum(20) ELSE RAbsent] :
        c \in {RAbsent, RNum(110)}, r \in {RNull, RNum(88)},
        p \in {RAbsent, RNum(100)}, t \in MarketTimes}

InfoFailure(outcome, message) ==
    [outcome |-> outcome, message |-> message,
     currentPrice |-> RAbsent, regularMarketPrice |-> RAbsent,
     previousClose |-> RAbsent, regularMarketTime |-> RAbsent,
     marketCap |-> RAbsent, trailingPE |-> RAbsent, forwardPE |-> RAbsent,
     enterpriseToEbitda |-> RAbsent,
     priceToSalesTrailing12Months |-> RAbsent]

Infos ==
    InfoDicts
    \cup {InfoFailure("empty", "")}
    \cup {InfoFailure("raise", m) :
            m \in {"", "Failed to perform, curl: (28) timeout"}}

\* config["guardrails"]: the section is a dict (every key possibly missing)
\* or null.
Section(kind, a, b, c, d) ==
    [section |-> kind, max_missing_tickers |-> a, stale_data_max_days |-> b,
     price_move_pct_threshold |-> c, earnings_window_days |-> d]

DefaultSection == Section("dict", RAbsent, RAbsent, RAbsent, RAbsent)

\* Thresholds of the declared types: the defaults, and each key set in turn.
ValidSections ==
    {DefaultSection}
    \cup {Section("dict", RNum(k), RAbsent, RAbsent, RAbsent) : k \in 1..MaxWatch}
    \cup {Section("dict", RAbsent, RNum(k), RAbsent, RAbsent) : k \in {0, 2}}
    \cup {Section("dict", RAbsent, RAbsent, RNum(k), RAbsent) : k \in {1000, 1250}}
    \cup {Section("dict", RAbsent, RAbsent, RAbsent, RNum(k)) : k \in {3}}

\* A key that is null or a non-numeric string, or a null section.
IllTypedSections ==
    {Section("dict", RNull, RAbsent, RAbsent, RAbsent),
     Section("dict", RAbsent, RAbsent, RStr, RAbsent),
     Section("null", RAbsent, RAbsent, RAbsent, RAbsent)}

Sections == ValidSections \cup IllTypedSections

\* resolve_watchlist: the first n tickers of the configuration, each with an
\* earnings date or none.
Watchlists ==
    UNION {[1..n -> EarningsDates] : n \in 0..MaxWatch}

NoVerdict ==
    [outcome |-> "none", exc |-> "", status |-> "",
     triggered |-> <<>>, earnings_due |-> <<>>]

\* config["cadence"]: the section is a dict (every key possibly missing) or
\* null.
Cadence(kind, w, b, m) ==
    [section |-> kind, weekly_review_day |-> w, bi_monthly_days |-> b,
     monthly_review_business_day |-> m]

DefaultCadence == Cadence("dict", WAbsent, BAbsent, RAbsent)

NoTasks ==
    [outcome |-> "none", exc |-> "", daily |-> <<>>, weekly |-> <<>>,
     bi_monthly |-> <<>>, monthly |-> <<>>, earnings_window |-> <<>>]

-----------------------------------------------------------------------------
(* The run of daily_stock_checkin.main: steps *)

PriceIdle == cur_in = None /\ prev_in = None /\ pct_out = None
ClusterIdle == transactions = <<>> /\ cluster_out = None

GuardIdle ==
    /\ pc = "idle"
    /\ run_date = BaseDay
    /\ guardrails = DefaultSection
    /\ watchlist = <<>>
    /\ snapshots = <<>>
    /\ verdict = NoVerdict

TaskIdle == cadence = DefaultCadence /\ due_tasks = NoTasks

\* The other programs have not run.
FetchIdle ==
    /\ script = ""
    /\ fetch_pc = "idle"
    /\ tickers = <<>>
    /\ idx = 0
    /\ clock = 0
    /\ issued = <<>>
    /\ errors = <<>>

NoCalls == calls = <<>>

NoRefresh == refresh_in = [called |-> FALSE] /\ refresh_out = None

OutsideMainIdle ==
    PriceIdle /\ ClusterIdle /\ FetchIdle /\ NoCalls /\ NoRefresh
OutsidePriceIdle ==
    GuardIdle /\ TaskIdle /\ ClusterIdle /\ FetchIdle /\ NoCalls /\ NoRefresh
OutsideClusterIdle ==
    GuardIdle /\ TaskIdle /\ PriceIdle /\ FetchIdle /\ NoCalls /\ NoRefresh
OutsideFetchIdle ==
    GuardIdle /\ TaskIdle /\ PriceIdle /\ ClusterIdle /\ NoCalls /\ NoRefresh

Init ==
    /\ pc = "fetch"
    /\ run_date \in RunDates
    /\ guardrails \in Sections
    /\ \E e \in Watchlists :
          watchlist = [i \in 1..Len(e) |-> WatchlistItem(WatchTickers[i], e[i])]
    /\ snapshots = <<>>
    /\ verdict = NoVerdict
    /\ TaskIdle
    /\ OutsideMainIdle

\* main, line 492: the next item of the comprehension.
FetchSnapshot ==
    /\ pc = "fetch"
    /\ Len(snapshots) < Len(watchlist)
    /\ \E info \in Infos :
          snapshots' = Append(snapshots,
                              fetch_snapshot(watchlist[Len(snapshots) + 1], info))
    /\ UNCHANGED <<pc, run_date, guardrails, watchlist, verdict>>
    /\ UNCHANGED <<taskVars, outsideMain>>

\* main, lines 494-499: an exception of evaluate_guardrails ends the run.
EvaluateGuardrails ==
    /\ pc = "fetch"
    /\ Len(snapshots) = Len(watchlist)
    /\ verdict' = evaluate_guardrails(snapshots, watchlist, guardrails, run_date)
    /\ pc' = IF verdict'.outcome = "raised" THEN "crashed" ELSE "evaluated"
    /\ UNCHANGED <<run_date, guardrails, watchlist, snapshots>>
    /\ UNCHANGED <<taskVars, outsideMain>>

\* main, lines 501-505: an exception of build_due_tasks ends the run.
BuildDueTasks ==
    /\ pc = "evaluated"
    /\ due_tasks' = build_due_tasks(run_date, cadence, verdict.earnings_due)
    /\ pc' = IF due_tasks'.outcome = "raised" THEN "crashed" ELSE "done"
    /\ UNCHANGED <<run_date, guardrails, watchlist, snapshots, verdict, cadence>>
    /\ UNCHANGED outsideMain

Next == FetchSnapshot \/ EvaluateGuardrails

Spec == Init /\ [][Next]_vars

-----------------------------------------------------------------------------
(* Properties of evaluate_guardrails, over the runs of main *)

Returned == verdict.outcome = "returned"

\* The thresholds in force: the configured number, or the documented default.
ConfiguredOr(raw, default) == IF raw.t = "num" THEN raw.n ELSE default
MaxMissingTickers == ConfiguredOr(guardrails.max_missing_tickers, 0)
StaleDataMaxDays == ConfiguredOr(guardrails.stale_data_max_days, 1)
PriceMovePctThreshold == ConfiguredOr(guardrails.price_move_pct_threshold, 700)
EarningsWindowDays == ConfiguredOr(guardrails.earnings_window_days, 1)

HasTrigger(rule) ==
    \E i \in 1..Len(verdict.triggered) : verdict.triggered[i].rule = rule

\* The ticker is one of the entries of the rule's trigger.
ListedIn(rule, ticker) ==
    \E i \in 1..Len(verdict.triggered) :
        /\ verdict.triggered[i].rule = rule
        /\ \E j \in 1..Len(verdict.triggered[i].items) :
              verdict.triggered[i].items[j].ticker = ticker

\* Snapshots whose error is set or whose price is absent.
MissingData ==
    {i \in 1..Len(snapshots) :
        snapshots[i].error # None \/ snapshots[i].price = None}

AgeDays(i) == run_date - snapshots[i].last_trade_date[1]

StaleSnapshots ==
    {i \in 1..Len(snapshots) :
        /\ snapshots[i].price # None
        /\ snapshots[i].last_trade_date # None
        /\ AgeDays(i) > StaleDataMaxDays}

MovedSnapshots ==
    {i \in 1..Len(snapshots) :
        /\ snapshots[i].price_change_pct # None
        /\ \/ snapshots[i].price_change_pct[1] >= PriceMovePctThreshold
           \/ snapshots[i].price_change_pct[1] <= -PriceMovePctThreshold}

Delta(i) == watchlist[i].earnings_date[1] - run_date

DueItems ==
    {i \in 1..Len(watchlist) :
        /\ watchlist[i].earnings_date # None
        /\ Delta(i) <= EarningsWindowDays
        /\ -Delta(i) <= EarningsWindowDays}

\* C1: whenever evaluate_guardrails returns, the status is MANUAL REVIEW
\* REQUIRED if and only if the trigger list is non-empty, and AUTO CLEAR
\* otherwise.
C1_StatusIffTriggers ==
    Returned =>
        /\ (verdict.status = "MANUAL REVIEW REQUIRED") <=> (Len(verdict.triggered) > 0)
        /\ (verdict.status = "AUTO CLEAR") <=> (Len(verdict.triggered) = 0)

C1_Witness ==
    /\ Returned
    /\ Len(verdict.triggered) = 1
    /\ verdict.status = "MANUAL REVIEW REQUIRED"

\* C2: evaluate_guardrails never fails: with a threshold that is missing,
\* null or not numeric, or a null guardrails section, it still returns a
\* verdict instead of raising.
C2_NeverRaises == verdict.outcome # "raised"

\* C3: for maxMissingTickers = k >= 0, the verdict carries the missing-data
\* trigger if and only if more than k snapshots have their error set or
\* their price absent (k+1 trips the rule, k does not).
C3_MissingDataThreshold ==
    (Returned /\ MaxMissingTickers >= 0) =>
        (HasTrigger("missing") <=> Cardinality(MissingData) > MaxMissingTickers)

C3_Witness ==
    /\ Returned
    /\ MaxMissingTickers = 1
    /\ Cardinality(MissingData) = MaxMissingTickers + 1
    /\ HasTrigger("missing")

\* C4: a ticker is listed in the staleness trigger if and only if its
\* snapshot has a price and a last-trade date and the run date is more than
\* staleDataMaxDays days after that date; a last-trade date after the run
\* date is never listed.
C4_StaleListing ==
    Returned =>
        \A i \in 1..Len(snapshots) :
            /\ ListedIn("stale", snapshots[i].ticker) <=> (i \in StaleSnapshots)
            /\ (snapshots[i].last_trade_date # None /\ AgeDays(i) < 0)
                   => ~ListedIn("stale", snapshots[i].ticker)

C4_Witness ==
    /\ Returned
    /\ \E i, j \in 1..Len(snapshots) :
          /\ ListedIn("stale", snapshots[i].ticker)
          /\ AgeDays(i) = StaleDataMaxDays + 1
          /\ snapshots[j].last_trade_date = None
          /\ ~ListedIn("stale", snapshots[j].ticker)

\* C5: a ticker is listed in the large-move trigger if and only if its
\* snapshot has a priceChangePct whose absolute value is at least
\* priceMovePctThreshold, whatever the sign of the move.
C5_LargeMoveListing ==
    Returned =>
        \A i \in 1..Len(snapshots) :
            ListedIn("move", snapshots[i].ticker) <=> (i \in MovedSnapshots)

C5_Witness ==
    /\ Returned
    /\ \E i, j \in 1..Len(snapshots) :
          /\ ListedIn("move", snapshots[i].ticker)
          /\ snapshots[i].price_change_pct[1] = PriceMovePctThreshold
          /\ ListedIn("move", snapshots[j].ticker)
          /\ snapshots[j].price_change_pct[1] < 0

\* The label the earnings-window rule gives a difference in days.
Label(delta) ==
    CASE delta = 0 -> "today"
      [] delta = -1 -> "1 day(s) ago"
      [] delta = -2 -> "2 day(s) ago"
      [] delta = -3 -> "3 day(s) ago"
      [] delta = 1 -> "in 1 day(s)"
      [] delta = 2 -> "in 2 day(s)"
      [] delta = 3 -> "in 3 day(s)"
      [] OTHER -> "?"

\* C6: earningsDue holds exactly the watchlist items whose earnings date is
\* known and at most earningsWindowDays days from the run date, in watchlist
\* order, each labelled "today", "{n} day(s) ago" or "in {n} day(s)".
C6_EarningsDue ==
    Returned =>
        /\ Len(verdict.earnings_due) = Cardinality(DueItems)
        /\ \A i \in DueItems :
              LET k == Cardinality({j \in DueItems : j <= i})
              IN  /\ verdict.earnings_due[k].ticker = watchlist[i].ticker
                  /\ verdict.earnings_due[k].relation = Label(Delta(i))

C6_Witness ==
    /\ Returned
    /\ Len(verdict.earnings_due) = 2
    /\ verdict.earnings_due[1].ticker = "NVDA"
    /\ verdict.earnings_due[1].relation = "2 day(s) ago"
    /\ verdict.earnings_due[2].ticker = "MRVL"

RuleRank(rule) ==
    CASE rule = "missing" -> 1
      [] rule = "stale" -> 2
      [] rule = "move" -> 3
      [] OTHER -> 4

\* C7: the trigger list holds at most one trigger per rule, in the order
\* missing-data, staleness, large-move, earnings-window, and each rule's
\* trigger is there exactly when that rule's own condition holds.
C7_TriggerOrder ==
    Returned =>
        /\ \A i, j \in 1..Len(verdict.triggered) :
              i < j => RuleRank(verdict.triggered[i].rule)
                           < RuleRank(verdict.triggered[j].rule)
        /\ Len(verdict.triggered) <= 4
        /\ HasTrigger("missing") <=> Cardinality(MissingData) > MaxMissingTickers
        /\ HasTrigger("stale") <=> StaleSnapshots # {}
        /\ HasTrigger("move") <=> MovedSnapshots # {}
        /\ HasTrigger("earnings") <=> DueItems # {}

C7_Witness ==
    /\ Returned
    /\ Len(verdict.triggered) = 4
    /\ verdict.triggered[1].rule = "missing"
    /\ verdict.triggered[4].rule = "earnings"

\* C9: a snapshot of fetch_snapshot whose error is set has no price, change,
\* market cap, valuation ratio or last-trade date, and is never listed in
\* the staleness or the large-move trigger.
C9_ErrorMeansUnset ==
    \A i \in 1..Len(snapshots) :
        snapshots[i].error # None =>
            /\ snapshots[i].price = None
            /\ snapshots[i].price_change_pct = None
            /\ snapshots[i].market_cap = None
            /\ snapshots[i].pe_trailing = None
            /\ snapshots[i].pe_forward = None
            /\ snapshots[i].ev_ebitda = None
            /\ snapshots[i].ps_ratio = None
            /\ snapshots[i].last_trade_date = None
            /\ ~ListedIn("stale", snapshots[i].ticker)
            /\ ~ListedIn("move", snapshots[i].ticker)

C9_Witness ==
    /\ Returned
    /\ Len(snapshots) = 2
    /\ snapshots[1].error # None
    /\ snapshots[2].error = None
    /\ MaxMissingTickers = 0
    /\ Len(verdict.triggered) = 1
    /\ verdict.triggered[1].rule = "missing"
    /\ verdict.triggered[1].items = <<snapshots[1].ticker>>

-----------------------------------------------------------------------------
(* compute_price_change_pct as a function of its two arguments *)

MaxPrice == 3

\* Whole-dollar prices: the small ones, a 100x pair (1, 100, 101), the
\* +10% pair (100, 110), inexact quotients (96) and ties (800, 801, 803).
PriceVals == (-1..MaxPrice) \cup {96, 100, 101, 110, 800, 801, 803}

PriceInputs == {None} \cup {Some(v) : v \in PriceVals}

InitPrice ==
    /\ cur_in \in PriceInputs
    /\ prev_in \in PriceInputs
    /\ pct_out = None
    /\ OutsidePriceIdle

ComputePriceChange ==
    /\ pct_out = None
    /\ pct_out' = Some(compute_price_change_pct(cur_in, prev_in))
    /\ UNCHANGED <<cur_in, prev_in>>
    /\ UNCHANGED outsidePrice

NextPrice == ComputePriceChange

SpecPrice == InitPrice /\ [][NextPrice]_vars

\* The cases in which the change is undefined.
Undefined(current, previous_close) ==
    \/ current = None
    \/ previous_close = None
    \/ previous_close[1] = 0
    \/ current[1] = previous_close[1]
    \/ previous_close[1] > 100 * current[1]
    \/ current[1] > 100 * previous_close[1]

\* v hundredths of a percent is ((current - previous_close) / previous_close)
\* * 100 rounded to two decimals: no hundredth is nearer to the exact value.
IsRoundedPct(v, current, previous_close) ==
    2 * Abs((v * previous_close) - ((current - previous_close) * 10000))
        <= Abs(previous_close)

\* C8: compute_price_change_pct returns null when an argument is missing,
\* previousClose is 0, the two are equal or one is more than 100 times the
\* other; otherwise the percentage change rounded to two decimals (110
\* against 100 gives +10.0).
C8_PriceChange ==
    pct_out # None =>
        /\ Undefined(cur_in, prev_in) => pct_out[1] = None
        /\ ~Undefined(cur_in, prev_in) =>
              /\ pct_out[1] # None
              /\ IsRoundedPct(pct_out[1][1], cur_in[1], prev_in[1])
        /\ (cur_in = <<110>> /\ prev_in = <<100>>) => pct_out[1] = <<1000>>

C8_Witness ==
    /\ cur_in = <<101>>
    /\ prev_in = <<96>>
    /\ pct_out = << <<521>> >>

-----------------------------------------------------------------------------
(* insider_activity.py: detect_cluster_selling *)

\* A field of a transaction dict is a record [t, v]: t is "absent" (no such
\* key), "null" or "str" with the text v. The text of trade_date is a date
\* text; the other texts are strings.
FAbsent(empty) == [t |-> "absent", v |-> empty]
FNull(empty) == [t |-> "null", v |-> empty]
FStr(v) == [t |-> "str", v |-> v]

Transaction(trade_type, trade_date, insider_name) ==
    [trade_type |-> trade_type, trade_date |-> trade_date,
     insider_name |-> insider_name]

\* "Sale" in text, on the trade types of the model.
ContainsSale(text) == text \in {"S - Sale", "S - Sale+OE", "Sale"}

\* "S -" in text, on the trade types of the model.
ContainsSDash(text) == text \in {"S - Sale", "S - Sale+OE", "S - Disposition"}

ClusterWindowDays == 7
MinSales == 3
MinSellers == 3

\* One pass of the loop of lines 109-115 over transaction t:
\*   "raise" a TypeError that ends the call, "skip" t, or "keep" it as
\*   (d, insider_name).
Classify(t) ==
    LET trade_type == IF t.trade_type.t = "absent" THEN FStr("") ELSE t.trade_type
    IN  IF trade_type.t = "null" THEN [act |-> "raise", sell |-> <<>>]
        ELSE IF ~(ContainsSale(trade_type.v) \/ ContainsSDash(trade_type.v))
        THEN [act |-> "skip", sell |-> <<>>]
        ELSE IF t.trade_date.t = "absent" THEN [act |-> "skip", sell |-> <<>>]
        ELSE IF t.trade_date.t = "null" THEN [act |-> "raise", sell |-> <<>>]
        ELSE IF IsNone(StrpDate(t.trade_date.v)) THEN [act |-> "skip", sell |-> <<>>]
        ELSE IF t.insider_name.t = "absent" THEN [act |-> "skip", sell |-> <<>>]
        ELSE [act |-> "keep",
              sell |-> <<Get(StrpDate(t.trade_date.v)), t.insider_name>>]

\* The loop of lines 109-115 over the transactions left, sells being the
\* list built so far.
RECURSIVE CollectSells(_, _)
CollectSells(txs, sells) ==
    IF txs = <<>> THEN [exc |-> "", sells |-> sells]
    ELSE
        LET c == Classify(Head(txs))
        IN  IF c.act = "raise" THEN [exc |-> "TypeError", sells |-> <<>>]
            ELSE CollectSells(Tail(txs),
                              IF c.act = "keep" THEN Append(sells, c.sell)
                              ELSE sells)

\* sells.sort(key=lambda x: x[0]): stable, ascending by date.
RECURSIVE InsertByDate(_, _)
InsertByDate(x, s) ==
    IF s = <<>> THEN <<x>>
    ELSE IF x[1] < Head(s)[1] THEN <<x>> \o s
    ELSE <<Head(s)>> \o InsertByDate(x, Tail(s))

\* The sales left in the order of the transactions.
NotSorted(s) == s

RECURSIVE SortByDate(_)
SortByDate(s) ==
    IF s = <<>> THEN <<>>
    ELSE InsertByDate(s[Len(s)], SortByDate(SubSeq(s, 1, Len(s) - 1)))

\* The comparison of line 126 made strict.
InWindowStrict(d, window_end) == d < window_end

\* Line 126: sells[j][0] <= window_end.
InWindow(d, window_end) == d <= window_end

\* The inner loop of lines 125-129, from index j, stopping at the first sale
\* after the window.
RECURSIVE UniqueSellers(_, _, _, _)
UniqueSellers(sells, j, window_end, unique_sellers) ==
    IF j > Len(sells) THEN unique_sellers
    ELSE IF InWindow(sells[j][1], window_end)
    THEN UniqueSellers(sells, j + 1, window_end, unique_sellers \cup {sells[j][2]})
    ELSE unique_sellers

\* The outer loop of lines 122-131, from index i.
RECURSIVE SlidingScan(_, _)
SlidingScan(sells, i) ==
    IF i > Len(sells) THEN FALSE
    ELSE IF Cardinality(UniqueSellers(sells, i, sells[i][1] + ClusterWindowDays, {}))
                >= MinSellers
    THEN TRUE
    ELSE SlidingScan(sells, i + 1)

detect_cluster_selling(txs) ==
    LET got == CollectSells(txs, <<>>)
    IN  IF got.exc # "" THEN [exc |-> got.exc, value |-> FALSE]
        ELSE IF Len(got.sells) < MinSales THEN [exc |-> "", value |-> FALSE]
        ELSE [exc |-> "", value |-> SlidingScan(SortByDate(got.sells), 1)]

-----------------------------------------------------------------------------
(* detect_cluster_selling on the transactions fetch_insider_data scrapes *)

MaxTx == 4

InsiderNames == {"Huang", "Kress", "Puri"}

\* Trade dates: days 0, 3, 6 and 10 from 2026-02-26, over a month's end.
TradeDateTexts ==
    {<<2026, 2, 26>>, <<2026, 3, 1>>, <<2026, 3, 4>>, <<2026, 3, 8>>}

\* What a scraped row gives: every field is a text (get_text). Sales of
\* each insider on each date, a purchase, and a sale whose date is no date.
ScrapedTransactions ==
    {Transaction(FStr("S - Sale"), FStr(d), FStr(n)) :
        d \in TradeDateTexts, n \in InsiderNames}
    \cup {Transaction(FStr("P - Purchase"), FStr(<<2026, 3, 1>>), FStr("Puri")),
          Transaction(FStr("S - Sale+OE"), FStr(<<2026, 2, 30>>), FStr("Puri"))}

TransactionLists ==
    UNION {[1..n -> ScrapedTransactions] : n \in 0..MaxTx}

InitCluster ==
    /\ transactions \in TransactionLists
    /\ cluster_out = None
    /\ OutsideClusterIdle

DetectClusterSelling ==
    /\ cluster_out = None
    /\ cluster_out' = Some(detect_cluster_selling(transactions))
    /\ UNCHANGED transactions
    /\ UNCHANGED outsideCluster

NextCluster == DetectClusterSelling

SpecCluster == InitCluster /\ [][NextCluster]_vars

\* The transactions that carry a sale marker and a parseable trade date.
IsSale(t) ==
    /\ t.trade_type.t = "str"
    /\ t.trade_type.v \in {"S - Sale", "S - Sale+OE", "S - Disposition", "Sale"}
    /\ t.trade_date.t = "str"
    /\ StrpDate(t.trade_date.v) # None

Sales == {i \in 1..Len(transactions) : IsSale(transactions[i])}

TradeDay(i) == StrpDate(transactions[i].trade_date.v)[1]

\* Some sale starts 7 days (both ends included) in which three distinct
\* insiders sell. Sold holds the (day, insider) pairs of the sales;
\* SellersWithin are the insiders of the sales dated from day to 7 days later.
Sold == {<<TradeDay(i), transactions[i].insider_name>> : i \in Sales}

SellersWithin(sold, day) ==
    {p[2] : p \in {q \in sold : day <= q[1] /\ q[1] <= day + 7}}

ClusterExists ==
    LET sold == Sold
    IN  \E s \in sold : Cardinality(SellersWithin(sold, s[1])) >= 3

\* C10: detect_cluster_selling returns true if and only if three sales with
\* a parseable date, by pairwise distinct insiders, lie within 7 days of the
\* date of one of the sales (both ends included).
C10_ClusterIffThreeSellers ==
    cluster_out # None =>
        /\ cluster_out[1].exc = ""
        /\ cluster_out[1].value <=> ClusterExists

\* Four sales, listed latest first: one insider on day 0 and again on day 10,
\* a second on day 3, a third on day 10. Only the window that starts at the
\* second sale (days 3 to 10, both ends included) holds three sellers.
C10_Witness ==
    /\ cluster_out # None
    /\ cluster_out[1].value
    /\ Len(transactions) = 4
    /\ Sales = 1..4
    /\ transactions[1].insider_name = transactions[4].insider_name
    /\ TradeDay(1) = TradeDay(4) + 10
    /\ TradeDay(2) = TradeDay(4) + 10
    /\ TradeDay(3) = TradeDay(4) + 3

-----------------------------------------------------------------------------
(* detect_cluster_selling on transaction dicts of any shape *)

\* Two trade dates, 3 days apart.
RawDateTexts == {<<2026, 2, 26>>, <<2026, 3, 1>>}

\* Transaction dicts whose trade_type, trade_date or insider_name is absent,
\* null or, for the date, no date.
IllFormedTransactions ==
    {Transaction(FNull(""), FStr(<<2026, 2, 26>>), FStr("Puri")),
     Transaction(FAbsent(""), FStr(<<2026, 2, 26>>), FStr("Puri")),
     Transaction(FStr("S - Sale"), FNull(<<>>), FStr("Puri")),
     Transaction(FStr("S - Sale"), FAbsent(<<>>), FStr("Puri")),
     Transaction(FStr("S - Sale"), FStr(<<2026, 2, 30>>), FStr("Puri")),
     Transaction(FStr("S - Sale"), FStr(<<2026, 3, 1>>), FAbsent("")),
     Transaction(FStr("S - Sale"), FStr(<<2026, 3, 1>>), FNull(""))}

RawTransactions ==
    {Transaction(FStr("S - Sale"), FStr(d), FStr(n)) :
        d \in RawDateTexts, n \in InsiderNames}
    \cup IllFormedTransactions

RawTransactionLists ==
    UNION {[1..n -> RawTransactions] : n \in 0..MaxTx}

InitClusterRaw ==
    /\ transactions \in RawTransactionLists
    /\ cluster_out = None
    /\ OutsideClusterIdle

NextClusterRaw == DetectClusterSelling

SpecClusterRaw == InitClusterRaw /\ [][NextClusterRaw]_vars

\* The (day, insider) pairs of the sales whose three fields are all texts
\* and whose date parses: what is left of the list once every ill-formed
\* transaction is taken out.
SoldWellFormed ==
    {<<TradeDay(i), transactions[i].insider_name>> :
        i \in {j \in Sales : transactions[j].insider_name.t = "str"}}

\* C11: detect_cluster_selling returns a boolean on every list, and the
\* boolean is the one the list gives once the transactions with a malformed,
\* absent or non-text trade date, or an absent or null trade type or insider
\* name, are taken out of it.
C11_BadInputIgnored ==
    cluster_out # None =>
        /\ cluster_out[1].exc = ""
        /\ cluster_out[1].value <=>
              LET sold == SoldWellFormed
              IN  \E s \in sold : Cardinality(SellersWithin(sold, s[1])) >= 3

-----------------------------------------------------------------------------
(* build_due_tasks on every run date and cadence section *)

MaxBusinessDay == 3

\* Months that start on a Friday (2026-05), a Saturday (2026-08, 2025-11)
\* and a Sunday (2026-02).
TaskMonths == {<<2026, 5>>, <<2026, 8>>, <<2025, 11>>, <<2026, 2>>}

\* --date: every day of those months.
TaskRunDates ==
    UNION {{ToOrdinal(ym[1], ym[2], d) : d \in 1..DaysInMonth(ym[1], ym[2])} :
              ym \in TaskMonths}

WeeklyReviewDays ==
    {WAbsent, WNull,
     WText(<<"F", "r", "i", "d", "a", "y">>),
     WText(<<" ", "m", "o", "n", "d", "a", "y", " ">>),
     WText(<<"W", "E", "D", "N", "E", "S", "D", "A", "Y">>),
     WText(<<"\t", "S", "u", "n", "d", "a", "y", "\n">>),
     WText(<<"F", "r", "i">>),
     WText(<<"s", "a", "t", "u", "r", " ", "d", "a", "y">>)}

BiMonthlyDays == {BAbsent, BNull, BList(<<>>), BList(<<10, 31>>)}

MonthlyReviewBusinessDays ==
    {RAbsent, RNull, RStr} \cup {RNum(k) : k \in 1..MaxBusinessDay}

Cadences ==
    {Cadence("dict", w, b, m) :
        w \in WeeklyReviewDays, b \in BiMonthlyDays,
        m \in MonthlyReviewBusinessDays}
    \cup {Cadence("null", WAbsent, BAbsent, RAbsent)}

\* main after line 499, on a watchlist that is empty or holds one item whose
\* earnings are on the run date, with the default guardrails.
InitTasks ==
    /\ pc = "evaluated"
    /\ run_date \in TaskRunDates
    /\ guardrails = DefaultSection
    /\ watchlist \in {<<>>, <<WatchlistItem(WatchTickers[1], Some(run_date))>>}
    /\ snapshots = [i \in 1..Len(watchlist) |->
                       fetch_snapshot(watchlist[i], InfoFailure("empty", ""))]
    /\ verdict = evaluate_guardrails(snapshots, watchlist, guardrails, run_date)
    /\ cadence \in Cadences
    /\ due_tasks = NoTasks
    /\ OutsideMainIdle

NextTasks == BuildDueTasks

SpecTasks == InitTasks /\ [][NextTasks]_vars

TasksReturned == due_tasks.outcome = "returned"

\* The weekday the configured name stands for, Monday being 0: the name
\* with its case and surrounding whitespace set aside, Friday when the key is
\* missing or the name is not a weekday name.
NamedWeekday ==
    LET w == cadence.weekly_review_day
    IN  IF w = WText(<<" ", "m", "o", "n", "d", "a", "y", " ">>) THEN 0
        ELSE IF w = WText(<<"W", "E", "D", "N", "E", "S", "D", "A", "Y">>) THEN 2
        ELSE IF w = WText(<<"\t", "S", "u", "n", "d", "a", "y", "\n">>) THEN 6
        ELSE 4

\* The run date is the given weekday (Monday 0), counted from 2026-02-26,
\* a Thursday.
RunsOnWeekday(k) == \E n \in -60..60 : run_date = BaseDay + (7 * n) + (k - 3)

\* C12: the weekly list is non-empty if and only if the run date's weekday
\* is the weekday weeklyReviewDay names (case and surrounding whitespace
\* ignored, Friday for a missing or unrecognized name); when non-empty it is
\* the fixed weekly list.
C12_WeeklyIffWeekday ==
    TasksReturned =>
        /\ due_tasks.weekly # <<>> <=> RunsOnWeekday(NamedWeekday)
        /\ due_tasks.weekly \in {<<>>, WeeklyTasks}

\* 2026-08-05, a Wednesday, with weekly_review_day: WEDNESDAY.
C12_Witness ==
    /\ TasksReturned
    /\ run_date = ToOrdinal(2026, 8, 5)
    /\ cadence.weekly_review_day
          = WText(<<"W", "E", "D", "N", "E", "S", "D", "A", "Y">>)
    /\ due_tasks.weekly = WeeklyTasks

\* The bi-monthly days in force: the configured list, or the 1st and the 15th.
ConfiguredBiMonthlyDays ==
    LET b == cadence.bi_monthly_days
    IN  IF b.t = "list" THEN {b.v[k] : k \in 1..Len(b.v)} ELSE {1, 15}

\* The run date is day d of one of the months.
RunsOnDay(d) ==
    \E ym \in TaskMonths :
        /\ d <= DaysInMonth(ym[1], ym[2])
        /\ run_date = ToOrdinal(ym[1], ym[2], d)

\* C13: the bi_monthly list is non-empty if and only if the run date's day of
\* the month is one of biMonthlyDays (the 1st and the 15th by default),
\* whatever the weekday, the other cadence settings and earningsDue.
C13_BiMonthlyIffDayListed ==
    TasksReturned =>
        /\ due_tasks.bi_monthly # <<>> <=>
              \E d \in ConfiguredBiMonthlyDays : RunsOnDay(d)
        /\ due_tasks.bi_monthly \in {<<>>, BiMonthlyTasks}

\* 2026-08-15, a Saturday, with the default days, a weekly review on Monday,
\* the third business day for the monthly review and earnings due.
C13_Witness ==
    /\ TasksReturned
    /\ run_date = ToOrdinal(2026, 8, 15)
    /\ cadence.bi_monthly_days = BAbsent
    /\ cadence.weekly_review_day = WText(<<" ", "m", "o", "n", "d", "a", "y", " ">>)
    /\ cadence.monthly_review_business_day = RNum(3)
    /\ verdict.earnings_due # <<>>
    /\ due_tasks.bi_monthly = BiMonthlyTasks

\* The business day of the monthly review: the configured number, or 1.
ConfiguredBusinessDay ==
    ConfiguredOr(cadence.monthly_review_business_day, 1)

\* C14: on a run date that is a Saturday or a Sunday the monthly list is
\* empty, for every monthlyReviewBusinessDay >= 1.
C14_WeekendNeverMonthly ==
    (/\ TasksReturned
     /\ RunsOnWeekday(5) \/ RunsOnWeekday(6)
     /\ ConfiguredBusinessDay >= 1)
        => due_tasks.monthly = <<>>

\* The first day of the month is a Saturday (2026-02-28 is one).
StartsOnSaturday(ym) ==
    \E n \in -60..60 : ToOrdinal(ym[1], ym[2], 1) = BaseDay + 2 + (7 * n)

RunsInMonth(ym) ==
    /\ ToOrdinal(ym[1], ym[2], 1) <= run_date
    /\ run_date <= ToOrdinal(ym[1], ym[2], DaysInMonth(ym[1], ym[2]))

SaturdayMonths == {ym \in TaskMonths : StartsOnSaturday(ym)}

\* What nth_business_day_of_month gives for the 3rd of those months.
OrdinalsOfThird ==
    {nth_business_day_of_month(ToOrdinal(ym[1], ym[2], 3)) : ym \in SaturdayMonths}

\* C15: in a month whose 1st is a Saturday, nth_business_day_of_month gives 1
\* for the 3rd (the first Monday), and with monthlyReviewBusinessDay = 1 the
\* monthly list is non-empty on the 3rd and on no other date of the month.
C15_SaturdayMonthFirstMonday ==
    /\ OrdinalsOfThird = {1}
    /\ \A ym \in SaturdayMonths :
          (TasksReturned /\ ConfiguredBusinessDay = 1 /\ RunsInMonth(ym))
              => (due_tasks.monthly # <<>>
                     <=> run_date = ToOrdinal(ym[1], ym[2], 3))

\* 2025-11-03, the Monday after Saturday 2025-11-01, with the default cadence.
C15_Witness ==
    /\ TasksReturned
    /\ run_date = ToOrdinal(2025, 11, 3)
    /\ StartsOnSaturday(<<2025, 11>>)
    /\ cadence = DefaultCadence
    /\ due_tasks.monthly = MonthlyTasks

-----------------------------------------------------------------------------
(* main, lines 494-505: evaluate_guardrails, then build_due_tasks *)

MainSections ==
    {DefaultSection, Section("dict", RAbsent, RAbsent, RAbsent, RNum(3))}

\* What a ticker's info gives: prices, or nothing.
MainInfos ==
    {CHOOSE i \in InfoDicts :
         /\ i.currentPrice = RNum(110)
         /\ i.regularMarketPrice = RNum(88)
         /\ i.previousClose = RNum(100)
         /\ i.regularMarketTime # RAbsent,
     InfoFailure("empty", "")}

MainCadences ==
    {DefaultCadence, Cadence("null", WAbsent, BAbsent, RAbsent)}

\* main after line 492: the snapshots are fetched.
InitMain ==
    /\ pc = "fetch"
    /\ run_date \in RunDates
    /\ guardrails \in MainSections
    /\ \E e \in Watchlists :
          /\ watchlist = [i \in 1..Len(e) |-> WatchlistItem(WatchTickers[i], e[i])]
          /\ \E f \in [1..Len(e) -> MainInfos] :
                snapshots = [i \in 1..Len(e) |-> fetch_snapshot(watchlist[i], f[i])]
    /\ verdict = NoVerdict
    /\ cadence \in MainCadences
    /\ due_tasks = NoTasks
    /\ OutsideMainIdle

NextMain == EvaluateGuardrails \/ BuildDueTasks

SpecMain == InitMain /\ [][NextMain]_vars

\* C16: in a run of main that reaches the end of build_due_tasks, the
\* earnings_window list is non-empty if and only if earningsDue is non-empty,
\* which is if and only if the earnings-window trigger is among the triggers;
\* when non-empty the list is the one fixed instruction.
C16_EarningsWindowIffDue ==
    pc = "done" =>
        /\ due_tasks.earnings_window # <<>> <=> verdict.earnings_due # <<>>
        /\ verdict.earnings_due # <<>> <=> HasTrigger("earnings")
        /\ due_tasks.earnings_window # <<>> =>
              due_tasks.earnings_window =
                  <<"Run earnings workflow: pre-read release, call notes, guidance delta, and post-call thesis check.">>

\* Two tickers due on the same run: one instruction.
C16_Witness ==
    /\ pc = "done"
    /\ Len(verdict.earnings_due) = 2
    /\ HasTrigger("earnings")
    /\ Len(due_tasks.earnings_window) = 1

-----------------------------------------------------------------------------
(* market_data.py: fetch_all_info; sec_filings.py: main, fetch_filings *)

\* time.monotonic() counts hundredths of a second from the moment main sets
\* the deadline, so the deadline is TOTAL_TIMEOUT.
MarketTotalTimeout == 90 * 100
MarketRequestDelay == 30
SecTotalTimeout == 60 * 100
SecRequestDelay == 15
SecPerRequestTimeout == 15 * 100

Max(a, b) == IF a > b THEN a ELSE b
Min(a, b) == IF a < b THEN a ELSE b

\* Tickers in the order sorted() gives them.
AlphabeticalTickers ==
    <<"AMZN", "CRWV", "GOOG", "LUMN", "META", "MOD", "MRVL", "MSFT", "NVDA",
      "OKLO", "TSM">>

\* sorted(tickers), for tickers that are pairwise distinct.
Sorted(ts) ==
    SelectSeq(AlphabeticalTickers,
              LAMBDA t : \E k \in 1..Len(ts) : ts[k] = t)

\* The sequence the loop of the script goes through.
LoopOrder ==
    IF script = "market_data" THEN Sorted(tickers) ELSE tickers

FetchError(ticker, kind) == [ticker |-> ticker, kind |-> kind]
Issued(ticker, at) == [ticker |-> ticker, at |-> at]

MaxTickers == 6

\* --tickers
CommandLineTickers ==
    <<"NVDA", "MRVL", "OKLO", "CRWV", "MOD", "LUMN", "TSM", "MSFT", "GOOG",
      "META", "AMZN">>

\* How long yf.Ticker(ticker).info takes: half a second, 45 seconds, 95.
MarketFetchTimes == {50, 4500, 9500}

\* How long session.get takes: a fifth of a second, or the whole timeout.
SecFetchTimes(timeout) == {20, timeout}

InitFetch ==
    /\ script \in {"market_data", "sec_filings"}
    /\ \E n \in 1..MaxTickers : tickers = SubSeq(CommandLineTickers, 1, n)
    /\ fetch_pc = "loop"
    /\ idx = 0
    /\ clock = 0
    /\ issued = <<>>
    /\ errors = <<>>
    /\ OutsideFetchIdle

\* fetch_all_info, lines 54-56: the deadline has passed at the head of an
\* iteration.
MarketDeadlineExceeded ==
    /\ script = "market_data"
    /\ fetch_pc = "loop"
    /\ idx < Len(LoopOrder)
    /\ clock > MarketTotalTimeout
    /\ errors' = Append(errors, FetchError(LoopOrder[idx + 1], "deadline"))
    /\ fetch_pc' = "done"
    /\ UNCHANGED <<script, tickers, idx, clock, issued>>
    /\ UNCHANGED outsideFetch

\* fetch_all_info, lines 57-64: one iteration that fetches.
MarketFetchInfo ==
    /\ script = "market_data"
    /\ fetch_pc = "loop"
    /\ idx < Len(LoopOrder)
    /\ ~(clock > MarketTotalTimeout)
    /\ LET ticker == LoopOrder[idx + 1]
           start == clock + (IF idx > 0 THEN MarketRequestDelay ELSE 0)
       IN  /\ issued' = Append(issued, Issued(ticker, start))
           /\ \E took \in MarketFetchTimes : clock' = start + took
           /\ \E raised \in BOOLEAN :
                 errors' = IF raised
                           THEN Append(errors, FetchError(ticker, "fetch"))
                           ELSE errors
    /\ idx' = idx + 1
    /\ UNCHANGED <<script, tickers, fetch_pc>>
    /\ UNCHANGED outsideFetch

\* sec_filings.main, lines 122-128, with fetch_filings returning at line 37.
SecTimeoutExceeded ==
    /\ script = "sec_filings"
    /\ fetch_pc = "loop"
    /\ idx < Len(LoopOrder)
    /\ LET now == clock + (IF idx > 0 THEN SecRequestDelay ELSE 0)
       IN  /\ now > SecTotalTimeout
           /\ clock' = now
           /\ errors' = Append(errors, FetchError(LoopOrder[idx + 1], "deadline"))
    /\ idx' = idx + 1
    /\ UNCHANGED <<script, tickers, fetch_pc, issued>>
    /\ UNCHANGED outsideFetch

\* sec_filings.main, lines 122-128, with fetch_filings going past line 37.
SecFetchFilings ==
    /\ script = "sec_filings"
    /\ fetch_pc = "loop"
    /\ idx < Len(LoopOrder)
    /\ LET ticker == LoopOrder[idx + 1]
           now == clock + (IF idx > 0 THEN SecRequestDelay ELSE 0)
           remaining == Max(100, SecTotalTimeout - now)
       IN  /\ ~(now > SecTotalTimeout)
           /\ issued' = Append(issued, Issued(ticker, now))
           /\ \E took \in SecFetchTimes(Min(SecPerRequestTimeout, remaining)) :
                 clock' = now + took
           /\ \E failed \in BOOLEAN :
                 errors' = IF failed
                           THEN Append(errors, FetchError(ticker, "fetch"))
                           ELSE errors
    /\ idx' = idx + 1
    /\ UNCHANGED <<script, tickers, fetch_pc>>
    /\ UNCHANGED outsideFetch

\* The loop has gone through every ticker.
FetchLoopEnd ==
    /\ fetch_pc = "loop"
    /\ idx = Len(LoopOrder)
    /\ fetch_pc' = "done"
    /\ UNCHANGED <<script, tickers, idx, clock, issued, errors>>
    /\ UNCHANGED outsideFetch

NextFetch ==
    \/ MarketDeadlineExceeded
    \/ MarketFetchInfo
    \/ SecTimeoutExceeded
    \/ SecFetchFilings
    \/ FetchLoopEnd

SpecFetch == InitFetch /\ [][NextFetch]_vars

\* The deadline of the running script, in hundredths of a second.
DeadlineOf(s) == IF s = "market_data" THEN 9000 ELSE 6000

WasIssued(ticker) == \E k \in 1..Len(issued) : issued[k].ticker = ticker

DeadlineErrors(ticker) ==
    {k \in 1..Len(errors) :
        errors[k].ticker = ticker /\ errors[k].kind = "deadline"}

\* C17: when a fetch loop has ended, no fetch was issued after the deadline
\* had passed, and every ticker for which no fetch was issued has exactly one
\* deadline error among the errors.
C17_DeadlineRecordsRemaining ==
    fetch_pc = "done" =>
        /\ \A k \in 1..Len(issued) : issued[k].at <= DeadlineOf(script)
        /\ \A i \in 1..Len(tickers) :
              ~WasIssued(tickers[i]) =>
                  Cardinality(DeadlineErrors(tickers[i])) = 1

-----------------------------------------------------------------------------
(* Repeated calls of evaluate_guardrails, build_due_tasks and
   detect_cluster_selling on the same arguments *)

\* What a call leaves in the lists it was given. evaluate_guardrails reads
\* snapshots and watchlist and appends to lists of its own (lines 321-373).
SnapshotsAfterEvaluate(snaps) == snaps
WatchlistAfterEvaluate(wl) == wl

\* build_due_tasks tests earnings_due (line 301) and nothing more.
EarningsDueAfterBuild(earnings_due) == earnings_due

\* The sales kept in the argument itself instead of in sells.
TransactionsFilteredInPlace(txs) ==
    SelectSeq(txs, LAMBDA t : t.trade_type.t = "str"
                              /\ (ContainsSale(t.trade_type.v)
                                  \/ ContainsSDash(t.trade_type.v)))

\* detect_cluster_selling collects into sells and sorts sells (lines 108-120);
\* transactions is read.
TransactionsAfterDetect(txs) == txs

MaxCalls == 4

\* The run date of the calls: the earnings date of the model.
RepeatRunDate == BaseDay + 3

RepeatSections ==
    {DefaultSection, Section("dict", RAbsent, RAbsent, RAbsent, RNum(3))}

\* What every ticker's info gives in one input: prices, or nothing.
RepeatInfos ==
    {CHOOSE i \in InfoDicts :
         /\ i.currentPrice = RNum(110)
         /\ i.regularMarketPrice = RNum(88)
         /\ i.previousClose = RNum(100)
         /\ i.regularMarketTime # RAbsent,
     InfoFailure("empty", "")}

RepeatCadences ==
    {DefaultCadence,
     Cadence("dict", WText(<<"S", "u", "n", "d", "a", "y">>), BList(<<1>>), RNum(1))}

\* No transaction; two sales; four transactions, latest first, with three
\* sellers within 7 days.
RepeatTransactionLists ==
    {<<>>,
     <<Transaction(FStr("S - Sale"), FStr(<<2026, 2, 26>>), FStr("Huang")),
       Transaction(FStr("S - Sale"), FStr(<<2026, 3, 8>>), FStr("Kress"))>>,
     <<Transaction(FStr("S - Sale"), FStr(<<2026, 3, 8>>), FStr("Huang")),
       Transaction(FStr("P - Purchase"), FStr(<<2026, 3, 1>>), FStr("Puri")),
       Transaction(FStr("S - Sale+OE"), FStr(<<2026, 3, 4>>), FStr("Kress")),
       Transaction(FStr("S - Sale"), FStr(<<2026, 3, 1>>), FStr("Puri"))>>}

InitRepeat ==
    /\ pc = "calls"
    /\ run_date = RepeatRunDate
    /\ guardrails \in RepeatSections
    /\ \E e \in Watchlists :
          watchlist = [i \in 1..Len(e) |-> WatchlistItem(WatchTickers[i], e[i])]
    /\ \E info \in RepeatInfos :
          snapshots = [i \in 1..Len(watchlist) |-> fetch_snapshot(watchlist[i], info)]
    /\ verdict = NoVerdict
    /\ cadence \in RepeatCadences
    /\ due_tasks = NoTasks
    /\ transactions \in RepeatTransactionLists
    /\ cluster_out = None
    /\ calls = <<>>
    /\ PriceIdle
    /\ FetchIdle
    /\ NoRefresh

CallEvaluateGuardrails ==
    /\ pc = "calls"
    /\ Len(calls) < MaxCalls
    /\ verdict' = evaluate_guardrails(snapshots, watchlist, guardrails, run_date)
    /\ snapshots' = SnapshotsAfterEvaluate(snapshots)
    /\ watchlist' = WatchlistAfterEvaluate(watchlist)
    /\ calls' = Append(calls, "evaluate_guardrails")
    /\ UNCHANGED <<pc, run_date, guardrails>>
    /\ UNCHANGED <<taskVars, clusterVars, priceVars, loopVars, refreshVars>>

\* build_due_tasks on the earnings_due list evaluate_guardrails returned.
CallBuildDueTasks ==
    /\ pc = "calls"
    /\ Len(calls) < MaxCalls
    /\ verdict.outcome = "returned"
    /\ due_tasks' = build_due_tasks(run_date, cadence, verdict.earnings_due)
    /\ verdict' = [verdict EXCEPT
                      !.earnings_due = EarningsDueAfterBuild(verdict.earnings_due)]
    /\ calls' = Append(calls, "build_due_tasks")
    /\ UNCHANGED <<pc, run_date, guardrails, watchlist, snapshots, cadence>>
    /\ UNCHANGED <<clusterVars, priceVars, loopVars, refreshVars>>

CallDetectClusterSelling ==
    /\ pc = "calls"
    /\ Len(calls) < MaxCalls
    /\ cluster_out' = Some(detect_cluster_selling(transactions))
    /\ transactions' = TransactionsAfterDetect(transactions)
    /\ calls' = Append(calls, "detect_cluster_selling")
    /\ UNCHANGED <<guardVars, taskVars, priceVars, loopVars, refreshVars>>

NextRepeat ==
    \/ CallEvaluateGuardrails
    \/ CallBuildDueTasks
    \/ CallDetectClusterSelling

SpecRepeat == InitRepeat /\ [][NextRepeat]_vars

-----------------------------------------------------------------------------
(* detect_cluster_selling on a list, then on the list reordered or extended *)

\* Sales on days 0, 3 and 10 from 2026-02-26, two of them on the same day, a
\* purchase, and three transactions a scraped row never gives: no trade_date,
\* a null insider_name, a null trade_type.
OrderTransactions ==
    {Transaction(FStr("S - Sale"), FStr(<<2026, 2, 26>>), FStr("Huang")),
     Transaction(FStr("S - Sale"), FStr(<<2026, 3, 1>>), FStr("Kress")),
     Transaction(FStr("S - Sale"), FStr(<<2026, 3, 1>>), FStr("Puri")),
     Transaction(FStr("S - Sale"), FStr(<<2026, 3, 8>>), FStr("Huang")),
     Transaction(FStr("S - Sale"), FStr(<<2026, 3, 8>>), FStr("Kress")),
     Transaction(FStr("P - Purchase"), FStr(<<2026, 3, 1>>), FStr("Puri")),
     Transaction(FStr("S - Sale"), FAbsent(<<>>), FStr("Puri")),
     Transaction(FStr("S - Sale"), FStr(<<2026, 3, 1>>), FNull("")),
     Transaction(FNull(""), FStr(<<2026, 3, 1>>), FStr("Puri"))}

OrderTransactionLists ==
    UNION {[1..n -> OrderTransactions] : n \in 0..MaxTx}

InitClusterOrder ==
    /\ transactions \in OrderTransactionLists
    /\ cluster_out = None
    /\ OutsideClusterIdle

\* The list with the elements at i and i + 1 exchanged.
Swapped(txs, i) ==
    [k \in 1..Len(txs) |->
        IF k = i THEN txs[i + 1] ELSE IF k = i + 1 THEN txs[i] ELSE txs[k]]

\* The list with t put after the first p elements.
Inserted(txs, p, t) ==
    SubSeq(txs, 1, p) \o <<t>> \o SubSeq(txs, p + 1, Len(txs))

\* A further call, on the list with two neighbours exchanged.
DetectPermuted ==
    /\ cluster_out # None
    /\ \E i \in 1..(Len(transactions) - 1) :
          transactions' = Swapped(transactions, i)
    /\ cluster_out' = Some(detect_cluster_selling(transactions'))
    /\ UNCHANGED outsideCluster

\* A further call, on the list with one more transaction in it.
DetectExtended ==
    /\ cluster_out # None
    /\ Len(transactions) < MaxTx
    /\ \E p \in 0..Len(transactions), t \in OrderTransactions :
          transactions' = Inserted(transactions, p, t)
    /\ cluster_out' = Some(detect_cluster_selling(transactions'))
    /\ UNCHANGED outsideCluster

NextClusterOrder ==
    \/ DetectClusterSelling
    \/ DetectPermuted
    \/ DetectExtended

SpecClusterOrder == InitClusterOrder /\ [][NextClusterOrder]_vars

\* How often t occurs in the list.
Occurrences(txs, t) == Cardinality({k \in 1..Len(txs) : txs[k] = t})

\* The two lists hold the same transactions, each as often.
IsPermutation(a, b) ==
    /\ Len(a) = Len(b)
    /\ \A k \in 1..Len(a) : Occurrences(a, a[k]) = Occurrences(b, a[k])

\* b is a with one transaction more.
IsExtension(a, b) ==
    /\ Len(b) = Len(a) + 1
    /\ \E p \in 1..Len(b) : a = SubSeq(b, 1, p - 1) \o SubSeq(b, p + 1, Len(b))

\* C19: detect_cluster_selling has the same outcome on a list and on a
\* permutation of it, and when it returns true on a list it does not return
\* false on that list with one more transaction in it.
C19_OrderIndependentMonotonic ==
    [][cluster_out # None =>
          /\ IsPermutation(transactions, transactions')
                => cluster_out' = cluster_out
          /\ IsExtension(transactions, transactions')
                => (cluster_out[1].exc = "" /\ cluster_out[1].value
                      => ~(cluster_out'[1].exc = "" /\ ~cluster_out'[1].value))]_vars

\* Four sales out of date order: two insiders on day 10, a third on day 3,
\* the first of the two again on day 0. The cluster needs both sales of day 10.
C19_Witness ==
    /\ cluster_out # None
    /\ cluster_out[1].value
    /\ Len(transactions) = 4
    /\ Sales = 1..4
    /\ TradeDay(1) = TradeDay(2)
    /\ transactions[1].insider_name # transactions[2].insider_name
    /\ TradeDay(3) = TradeDay(1) - 7
    /\ TradeDay(4) = TradeDay(1) - 10
    /\ transactions[4].insider_name = transactions[1].insider_name
    /\ transactions[3].insider_name # transactions[2].insider_name

-----------------------------------------------------------------------------
(* market_data.py: refresh_earnings *)

\* The earnings_date of a watchlist item of the config: the key is missing,
\* null, a date (YAML reads an unquoted date as one) or a text. v is the
\* <<y, m, d>> of the date or of the text.
EAbsent == [t |-> "absent", v |-> <<>>]
ENull == [t |-> "null", v |-> <<>>]
EDate(v) == [t |-> "date", v |-> v]
EText(v) == [t |-> "str", v |-> v]

ConfigItem(ticker, earnings_date) ==
    [ticker |-> ticker, earnings_date |-> earnings_date]

\* date.isoformat(), as a date text.
IsoFormat(ordinal) == <<YearOf(ordinal), MonthOf(ordinal), DayOf(ordinal)>>

\* Today's date counted as past.
IsBeforeOrToday(current_date, today) == current_date <= today

\* Line 297: current_date < today.
IsBefore(current_date, today) == current_date < today

\* Lines 287-300.
NeedsUpdate(item, today) ==
    LET current_date_str == item.earnings_date
    IN  IF current_date_str.t \in {"absent", "null"} THEN TRUE
        ELSE IF current_date_str.t = "date"
        THEN IsBefore(ToOrdinal(current_date_str.v[1], current_date_str.v[2],
                                current_date_str.v[3]), today)
        ELSE LET current_date == StrpDate(current_date_str.v)
             IN  IF IsNone(current_date) THEN TRUE
                 ELSE IsBefore(Get(current_date), today)

\* What get_next_earnings_date does for a ticker: returns a date, returns
\* None, raises an exception line 322 catches, or raises another one.
Found(ordinal) == [kind |-> "found", date |-> ordinal]
NotFound == [kind |-> "none", date |-> 0]
LookupCaught == [kind |-> "caught", date |-> 0]
LookupUncaught == [kind |-> "uncaught", date |-> 0]

\* str(current_date_str) if current_date_str else "null": <<>> is "null".
OldVal(current_date_str) ==
    IF current_date_str.t \in {"absent", "null"} THEN <<>> ELSE current_date_str.v

\* The loop of lines 283-324 from item k; st holds watchlist (the items of
\* the loaded config), updated, unchanged, errors, changed, and exc once an
\* exception has left the loop.
RECURSIVE RefreshLoop(_, _, _, _)
RefreshLoop(st, k, lookups, today) ==
    IF k > Len(st.watchlist) \/ st.exc # "" THEN st
    ELSE
        LET item == st.watchlist[k]
            ticker == item.ticker
            found == lookups[k]
        IN  IF ~NeedsUpdate(item, today)
            THEN RefreshLoop([st EXCEPT !.unchanged = Append(@, ticker)],
                             k + 1, lookups, today)
            ELSE IF found.kind = "found"
            THEN RefreshLoop(
                     [st EXCEPT
                         !.watchlist[k].earnings_date = EText(IsoFormat(found.date)),
                         !.updated = Append(@, [ticker |-> ticker,
                                                old_date |-> OldVal(item.earnings_date),
                                                new_date |-> IsoFormat(found.date)]),
                         !.changed = TRUE],
                     k + 1, lookups, today)
            ELSE IF found.kind = "none"
            THEN RefreshLoop(
                     [st EXCEPT !.errors = Append(@, <<ticker, "no date">>),
                                !.unchanged = Append(@, ticker)],
                     k + 1, lookups, today)
            ELSE IF found.kind = "caught"
            THEN RefreshLoop(
                     [st EXCEPT !.errors = Append(@, <<ticker, "exception">>),
                                !.unchanged = Append(@, ticker)],
                     k + 1, lookups, today)
            ELSE [st EXCEPT !.exc = "Exception"]

\* What a call leaves: outcome "returned" or "raised", the two lists, the
\* errors appended, the operations on the config file in order ("read",
\* "write", or "write failed" for a write that raised OSError) and the file
\* afterwards. A write fails in open(), which leaves the file as it was, or
\* in yaml.dump, which leaves a part of the new text (kind "partial").
RefreshResult(outcome, updated, unchanged, errs, ops, file) ==
    [outcome |-> outcome, updated |-> updated, unchanged |-> unchanged,
     errors |-> errs, ops |-> ops, file |-> file]

\* file is the config file: kind "ok" (a mapping with a watchlist),
\* "unreadable" (open or the parser raises) or "empty" (safe_load gives None).
\* write is what the write of lines 326-331 meets: "ok", "open fails" or
\* "dump fails".
refresh_earnings(watchlist_tickers, lookups, config_path, file, write, today) ==
    IF config_path = None
    THEN RefreshResult("returned", <<>>, watchlist_tickers, <<>>, <<>>, file)
    ELSE IF file.kind = "unreadable"
    THEN RefreshResult("returned", <<>>, <<>>, <<"Failed to load config">>,
                       <<"read">>, file)
    ELSE IF file.kind = "empty"
    THEN RefreshResult("raised", <<>>, <<>>, <<>>, <<"read">>, file)
    ELSE
        LET st == RefreshLoop([watchlist |-> file.watchlist, updated |-> <<>>,
                               unchanged |-> <<>>, errors |-> <<>>,
                               changed |-> FALSE, exc |-> ""],
                              1, lookups, today)
        IN  IF st.exc # ""
            THEN RefreshResult("raised", <<>>, <<>>, st.errors, <<"read">>, file)
            ELSE IF ~st.changed
            THEN RefreshResult("returned", st.updated, st.unchanged, st.errors,
                               <<"read">>, file)
            ELSE IF write = "ok"
            THEN RefreshResult("returned", st.updated, st.unchanged, st.errors,
                               <<"read", "write">>,
                               [file EXCEPT !.watchlist = st.watchlist])
            ELSE RefreshResult("returned", st.updated, st.unchanged,
                               Append(st.errors, <<"", "Failed to write config">>),
                               <<"read", "write failed">>,
                               IF write = "open fails" THEN file
                               ELSE [kind |-> "partial", watchlist |-> <<>>])

MaxItems == 2

\* date.today()
RefreshToday == BaseDay

\* Earnings dates of the config: 6 days ago, today, in 7 days, no date.
ItemEarningsDates ==
    {EAbsent, ENull, EDate(<<2026, 2, 20>>), EDate(<<2026, 3, 5>>),
     EText(<<2026, 2, 26>>), EText(<<2026, 2, 20>>), EText(<<2026, 2, 30>>)}

ConfigFile(kind, items) == [kind |-> kind, watchlist |-> items]

ConfigFiles ==
    {ConfigFile("ok", [i \in 1..Len(e) |-> ConfigItem(WatchTickers[i], e[i])]) :
        e \in UNION {[1..n -> ItemEarningsDates] : n \in 0..MaxItems}}
    \cup {ConfigFile("unreadable", <<>>), ConfigFile("empty", <<>>)}

WriteOutcomes == {"ok", "open fails", "dump fails"}

LookupOutcomes ==
    {Found(RefreshToday + 30), NotFound, LookupCaught, LookupUncaught}

InitRefresh ==
    /\ \E path \in {None, Some("stock_checkin_config.yaml")},
          file \in ConfigFiles, write \in WriteOutcomes,
          n \in 1..2 :
          refresh_in = [called |-> TRUE,
                        watchlist_tickers |-> SubSeq(WatchTickers, 1, n),
                        config_path |-> path, file |-> file,
                        write |-> write, today |-> RefreshToday]
    /\ refresh_out = None
    /\ GuardIdle /\ TaskIdle /\ PriceIdle /\ ClusterIdle /\ FetchIdle /\ NoCalls

\* market_data.main, line 381.
RefreshEarnings ==
    /\ refresh_out = None
    /\ refresh_in.called
    /\ \E lookups \in [1..Len(refresh_in.file.watchlist) -> LookupOutcomes] :
          refresh_out' = Some(refresh_earnings(refresh_in.watchlist_tickers,
                                               lookups, refresh_in.config_path,
                                               refresh_in.file,
                                               refresh_in.write,
                                               refresh_in.today))
    /\ UNCHANGED refresh_in
    /\ UNCHANGED <<guardVars, taskVars, priceVars, clusterVars, loopVars, calls>>

NextRefresh == RefreshEarnings

SpecRefresh == InitRefresh /\ [][NextRefresh]_vars

\* The call has returned on a config path whose file holds a watchlist.
Processed ==
    /\ refresh_out # None
    /\ refresh_out[1].outcome = "returned"
    /\ refresh_in.config_path # None
    /\ refresh_in.file.kind = "ok"

\* The earnings date the file held is missing, null, no date, or a date
\* before 2026-02-26.
WasStale(item) ==
    \/ item.earnings_date \in {EAbsent, ENull, EText(<<2026, 2, 30>>)}
    \/ item.earnings_date.v \in {<<2026, 2, 20>>}

TimesUpdated(ticker) ==
    Cardinality({k \in 1..Len(refresh_out[1].updated) :
                    refresh_out[1].updated[k].ticker = ticker})

TimesUnchanged(ticker) ==
    Cardinality({k \in 1..Len(refresh_out[1].unchanged) :
                    refresh_out[1].unchanged[k] = ticker})

\* Each item is in exactly one of the two lists, and an updated one was stale
\* and has a new date.
ItemsPartitioned ==
    \A i \in 1..Len(refresh_in.file.watchlist) :
        LET item == refresh_in.file.watchlist[i]
        IN  /\ TimesUpdated(item.ticker) + TimesUnchanged(item.ticker) = 1
            /\ TimesUpdated(item.ticker) = 1 =>
                  /\ WasStale(item)
                  /\ \E k \in 1..Len(refresh_out[1].updated) :
                        /\ refresh_out[1].updated[k].ticker = item.ticker
                        /\ refresh_out[1].updated[k].new_date = <<2026, 3, 28>>

\* Without a config path: no file operation, every ticker unchanged.
NoPathNoFile ==
    (refresh_out # None /\ refresh_in.config_path = None) =>
        /\ refresh_out[1].ops = <<>>
        /\ refresh_out[1].file = refresh_in.file
        /\ refresh_out[1].updated = <<>>
        /\ refresh_out[1].unchanged = refresh_in.watchlist_tickers

HasOp(op) == \E k \in 1..Len(refresh_out[1].ops) : refresh_out[1].ops[k] = op

\* C20 as stated: after refresh_earnings has processed a readable config,
\* every item is in exactly one of updated and unchanged, an updated item had
\* a missing, unparseable or past date and got a new one, and the config file
\* has been written if and only if some item was updated; without a config
\* path nothing is read or written and all tickers are unchanged.
C20_WrittenIffUpdated ==
    /\ NoPathNoFile
    /\ Processed =>
          /\ ItemsPartitioned
          /\ HasOp("write") <=> refresh_out[1].updated # <<>>

\* C20, amended: as above, but it is the attempt to write that goes with an
\* update. The file is opened for writing if and only if some item was
\* updated; a write that succeeds leaves the new dates in the file, a write
\* that raises OSError is recorded among the errors, and without an update
\* the file is as it was.
C20_WriteAttemptedIffUpdated ==
    /\ NoPathNoFile
    /\ Processed =>
          /\ ItemsPartitioned
          /\ (HasOp("write") \/ HasOp("write failed"))
                <=> refresh_out[1].updated # <<>>
          /\ refresh_out[1].updated = <<>> => refresh_out[1].file = refresh_in.file
          /\ HasOp("write failed") =>
                \E k \in 1..Len(refresh_out[1].errors) :
                    refresh_out[1].errors[k] = <<"", "Failed to write config">>
          /\ HasOp("write") =>
                \A i \in 1..Len(refresh_in.file.watchlist) :
                    refresh_out[1].file.watchlist[i].earnings_date =
                        IF TimesUpdated(refresh_in.file.watchlist[i].ticker) = 1
                        THEN EText(<<2026, 3, 28>>)
                        ELSE refresh_in.file.watchlist[i].earnings_date

\* Two items: the first, dated today, stays; the second, 6 days old, gets a
\* new date, and the file is written.
C20_Witness ==
    /\ Processed
    /\ Len(refresh_in.file.watchlist) = 2
    /\ refresh_in.file.watchlist[1].earnings_date = EText(<<2026, 2, 26>>)
    /\ refresh_in.file.watchlist[2].earnings_date = EDate(<<2026, 2, 20>>)
    /\ refresh_out[1].unchanged = <<"NVDA">>
    /\ Len(refresh_out[1].updated) = 1
    /\ refresh_out[1].updated[1].ticker = "MRVL"
    /\ refresh_out[1].ops = <<"read", "write">>

=============================================================================
